---- MODULE Spec2Model ----
(***************************************************************************)
(* A model of AtomDB's species layer (src/atomdb/species.py): the record   *)
(* schema SpeciesData, the Species facade with its derived properties and  *)
(* spline accessors, DensitySpline, and the file store (dump, load,        *)
(* datafile).                                                              *)
(*                                                                         *)
(* Arrays (numpy.ndarray) are records [nd, nr, nc, v]: nd is the number of *)
(* dimensions (0, 1 or 2), v the rows.  A 1-D array of n values is         *)
(* [nd |-> 1, nr |-> 1, nc |-> n, v |-> <<values>>]; a 0-d value x is      *)
(* [nd |-> 0, nr |-> 1, nc |-> 1, v |-> <<<<x>>>>].                        *)
(* A computation that may raise returns [ok, err, val].                    *)
(***************************************************************************)
EXTENDS Integers, Sequences, FiniteSets, TLC

\* ------------------------------------------------------------------ bounds
\* Number of points of the radial grid rs.
GridLen == 2
\* Largest number of orbital rows of a stored 2-D array.
MaxRows == 2
\* Largest excitation index of a record.
MaxNexc == 1
\* Largest number of files the database directory holds at start.
MaxFiles == 2
\* Largest number of records passed to dump in one behaviour.
MaxDumped == 2

VARIABLES
    self,       \* SpecSpline: the Species queried, [dataset, data, spinpol]
    ret,        \* SpecSpline: the last accessor call, construction or setter
    ev,         \* SpecSpline: the last evaluation of the spline ret holds
    store,      \* the files of <datapath>/<dataset>/db: name -> content
    latest,     \* history: identity key -> the fields last passed to dump
    polarity,   \* history: identity key -> the spinpol last passed to dump
    ndumps,     \* history: the number of records passed to dump
    wasEmpty,   \* history: the store held no file at start
    last,       \* SpecStore: the last dump, load or property read
    wpc, rpc,   \* SpecRace: where the dumping and the loading process are
    wrec,       \* SpecRace: the record the writer dumps, its file, the store at start
    rfile,      \* SpecRace: the reader's arguments and the file it opened
    rres        \* SpecRace: what the reader's load gave

vars == <<self, ret, ev, store, latest, polarity, ndumps, wasEmpty, last,
          wpc, rpc, wrec, rfile, rres>>
splineVars == <<self, ret, ev>>
storeVars == <<store, latest, polarity, ndumps, wasEmpty, last>>
raceVars == <<wpc, rpc, wrec, rfile, rres>>

\* ------------------------------------------------------------------ values
\* A Python value that is an integer, None or Ellipsis (the wildcard of load
\* and datafile).
PyInt(n) == [tag |-> "int", v |-> n]
PyNone == [tag |-> "None", v |-> 0]
PyEllipsis == [tag |-> "Ellipsis", v |-> 0]

RECURSIVE SumSeq(_)
SumSeq(s) == IF s = <<>> THEN 0 ELSE Head(s) + SumSeq(Tail(s))

Mat(rows, nc) == [nd |-> 2, nr |-> Len(rows), nc |-> nc, v |-> rows]
Vec(vals) == [nd |-> 1, nr |-> 1, nc |-> Len(vals), v |-> <<vals>>]
Scal(x) == [nd |-> 0, nr |-> 1, nc |-> 1, v |-> <<<<x>>>>]

Ok(a) == [ok |-> TRUE, err |-> "", val |-> a]
Raise(e) == [ok |-> FALSE, err |-> e, val |-> Scal(0)]

\* np.zeros(0).reshape(0): the empty 1-D array.
default_vector == Vec(<<>>)
\* np.zeros(0).reshape(1, 0): one row of no columns.
default_matrix == Mat(<< <<>> >>, 0)

\* ------------------------------------------------------------------ numpy
\* The number of rows and columns an operand has when broadcast to 2-D.
BRows(a) == IF a.nd = 2 THEN a.nr ELSE 1
BCols(a) == IF a.nd = 0 THEN 1 ELSE a.nc
BDim(m, n) == IF m = 1 THEN n ELSE m
BCompatible(m, n) == m = n \/ m = 1 \/ n = 1
BAt(a, i, j) ==
    a.v[IF BRows(a) = 1 THEN 1 ELSE i][IF BCols(a) = 1 THEN 1 ELSE j]

\* a + sign * b with numpy's broadcasting (sign = 1: a + b, sign = -1: a - b).
Broadcast(a, b, sign) ==
    IF ~(BCompatible(BRows(a), BRows(b)) /\ BCompatible(BCols(a), BCols(b)))
    THEN Raise("ValueError: operands could not be broadcast together")
    ELSE LET nr == BDim(BRows(a), BRows(b))
             nc == BDim(BCols(a), BCols(b))
             rows == [i \in 1..nr |->
                        [j \in 1..nc |-> BAt(a, i, j) + sign * BAt(b, i, j)]]
         IN  Ok(IF a.nd = 2 \/ b.nd = 2 THEN Mat(rows, nc)
                ELSE IF a.nd = 1 \/ b.nd = 1 THEN Vec(rows[1])
                ELSE Scal(rows[1][1]))

np_add(a, b) == Broadcast(a, b, 1)
np_sub(a, b) == Broadcast(a, b, -1)

\* An index argument: None, an integer, or a sequence of integers (0-based).
IdxNone == [kind |-> "none", i |-> 0, s |-> <<>>]
IdxInt(i) == [kind |-> "int", i |-> i, s |-> <<>>]
IdxSeq(s) == [kind |-> "seq", i |-> 0, s |-> s]

\* arr[... if index is None else index] on a 1-D or 2-D array.
GetItem(arr, index) ==
    LET n == IF arr.nd = 2 THEN arr.nr ELSE arr.nc IN
    IF index.kind = "none" THEN Ok(arr)
    ELSE IF index.kind = "int" THEN
        IF index.i >= n THEN Raise("IndexError")
        ELSE IF arr.nd = 2 THEN Ok(Vec(arr.v[index.i + 1]))
        ELSE Ok(Scal(arr.v[1][index.i + 1]))
    ELSE
        IF \E k \in 1..Len(index.s) : index.s[k] >= n THEN Raise("IndexError")
        ELSE IF arr.nd = 2
        THEN Ok(Mat([k \in 1..Len(index.s) |-> arr.v[index.s[k] + 1]], arr.nc))
        ELSE Ok(Vec([k \in 1..Len(index.s) |-> arr.v[1][index.s[k] + 1]]))

\* arr.sum(axis=0): sums over the FIRST axis, whatever it is.
SumAxis0(arr) ==
    IF arr.nd = 0 THEN Raise("AxisError: axis 0 is out of bounds")
    ELSE IF arr.nd = 1 THEN Ok(Scal(SumSeq(arr.v[1])))
    ELSE Ok(Vec([j \in 1..arr.nc |->
                    SumSeq([i \in 1..arr.nr |-> arr.v[i][j]])]))

\* ------------------------------------------------------------ SpeciesData
\* The fields a SpeciesData takes when none is given.
SpeciesDataDefaults ==
    [energy |-> PyNone, ip |-> PyNone, mu |-> PyNone, eta |-> PyNone,
     rs |-> default_vector,
     mo_energy_a |-> default_vector, mo_energy_b |-> default_vector,
     mo_occs_a |-> default_vector, mo_occs_b |-> default_vector,
     mo_dens_a |-> default_matrix, mo_dens_b |-> default_matrix,
     dens_tot |-> default_matrix,
     mo_d_dens_a |-> default_matrix, mo_d_dens_b |-> default_matrix,
     d_dens_tot |-> default_matrix,
     mo_dd_dens_a |-> default_matrix, mo_dd_dens_b |-> default_matrix,
     dd_dens_tot |-> default_matrix,
     mo_ked_a |-> default_matrix, mo_ked_b |-> default_matrix,
     ked_tot |-> default_matrix]

\* SpeciesData(**fields): the given fields over the defaults.
SpeciesData(fields) ==
    [k \in DOMAIN SpeciesDataDefaults \cup DOMAIN fields |->
        IF k \in DOMAIN fields THEN fields[k] ELSE SpeciesDataDefaults[k]]

\* ---------------------------------------------------------- DensitySpline
NoSpline == [fitted |-> FALSE, log |-> FALSE, x |-> <<>>, y |-> <<>>]

\* DensitySpline(x, y, log): CubicSpline(x, np.log(y) if log else y, axis=0)
\* needs one sample per point of x, at least two points, and finite samples
\* (np.log of a sample <= 0 is not finite).  The fitted state is the grid,
\* the samples and the mode.
DensitySpline(x, y, log) ==
    IF y.nd = 0 \/ y.nd = 2 \/ x.nd # 1
    THEN [ok |-> FALSE, err |-> "CubicSpline: shape", obj |-> NoSpline]
    ELSE IF x.nc # y.nc \/ x.nc < 2
    THEN [ok |-> FALSE, err |-> "CubicSpline: length", obj |-> NoSpline]
    ELSE IF log /\ \E j \in 1..y.nc : y.v[1][j] <= 0
    THEN [ok |-> FALSE, err |-> "CubicSpline: not finite", obj |-> NoSpline]
    ELSE [ok |-> TRUE, err |-> "",
          obj |-> [fitted |-> TRUE, log |-> log, x |-> x.v[1], y |-> y.v[1]]]

\* The order check of DensitySpline.__call__: not (0 <= deriv <= 2).
DerivRejected(deriv) == ~(0 <= deriv /\ deriv <= 2)

InvalidDeriv == "ValueError: Invalid derivative order"

\* DensitySpline.__call__(x, deriv): the outcome, the number of evaluations of
\* the fitted CubicSpline (self._obj) and the formula of the returned value.
DensitySpline_call(spl, deriv) ==
    IF DerivRejected(deriv)
    THEN [ok |-> FALSE, err |-> InvalidDeriv, deriv |-> deriv,
          nobj |-> 0, form |-> ""]
    ELSE IF spl.log
    THEN CASE deriv = 0 ->
                [ok |-> TRUE, err |-> "", deriv |-> deriv, nobj |-> 1,
                 form |-> "exp(obj)"]
           [] deriv = 1 ->
                [ok |-> TRUE, err |-> "", deriv |-> deriv, nobj |-> 2,
                 form |-> "obj'*exp(obj)"]
           [] OTHER ->
                [ok |-> TRUE, err |-> "", deriv |-> deriv, nobj |-> 3,
                 form |-> "obj''*exp(obj)+obj'^2*exp(obj)"]
    ELSE [ok |-> TRUE, err |-> "", deriv |-> deriv, nobj |-> 1,
          form |-> "obj(nu=deriv)"]

\* ---------------------------------------------------------------- Species
\* Species.charge: atnum - nelec.
Species_charge(d) == d.atnum - d.nelec

\* Species.nspin: the body evaluates self._data.nspin * self._spinpol and has
\* no return statement, so the property yields None.
Species_nspin(d, sp) ==
    LET discarded == d.nspin * sp IN PyNone

\* Species.mult: the body evaluates self._data.nspin + 1 and has no return
\* statement, so the property yields None.
Species_mult(d) ==
    LET discarded == d.nspin + 1 IN PyNone

\* Mutant of SpinOk: the check lets an unknown selector through.
SpinOk_lax(spin) == spin \in {"t", "a", "b", "m", "x"}

\* The spin selectors the spline accessors accept.
SpinOk(spin) == spin \in {"t", "a", "b", "m"}

InvalidSpin == "ValueError: Invalid spin parameter"

\* Mutant of NameA: the channel name ignores spinpol.
NameA_fixed(name, sp) == "mo_" \o name \o "_a"

\* The names of the stored {a, b} arrays of quantity name under spinpol sp.
NameA(name, sp) ==
    IF sp = 1 THEN "mo_" \o name \o "_a" ELSE "mo_" \o name \o "_b"
NameB(name, sp) ==
    IF sp = 1 THEN "mo_" \o name \o "_b" ELSE "mo_" \o name \o "_a"
NameTot(name) == name \o "_tot"

\* The array a spline accessor extracts, and the fields it reads for it.
Extract(d, sp, name, spin, index) ==
    IF index.kind = "none" /\ spin = "t" THEN Ok(d[NameTot(name)])
    ELSE IF spin = "t" THEN np_add(d[NameA(name, sp)], d[NameB(name, sp)])
    ELSE IF spin = "a" THEN Ok(d[NameA(name, sp)])
    ELSE IF spin = "b" THEN Ok(d[NameB(name, sp)])
    ELSE IF spin = "m" THEN np_sub(d[NameA(name, sp)], d[NameB(name, sp)])
    ELSE Raise("UnboundLocalError: arr")

ExtractReads(sp, name, spin, index) ==
    IF index.kind = "none" /\ spin = "t" THEN {NameTot(name)}
    ELSE IF spin = "a" THEN {NameA(name, sp)}
    ELSE IF spin = "b" THEN {NameB(name, sp)}
    ELSE IF spin \in {"t", "m"} THEN {NameA(name, sp), NameB(name, sp)}
    ELSE {}

\* The second argument of DensitySpline: arr[index].sum(axis=0).
Sample(d, sp, name, spin, index) ==
    LET arr == Extract(d, sp, name, spin, index)
        sel == IF arr.ok THEN GetItem(arr.val, index) ELSE arr
    IN  IF sel.ok THEN SumAxis0(sel.val) ELSE sel

\* spline.wrapper(self, spin, index) of the accessor <name>_func: the outcome,
\* the fields of self._data it read, the sample array handed to DensitySpline
\* (when one was computed) and the spline built.
wrapper(d, sp, name, spin, index) ==
    IF ~SpinOk(spin)
    THEN [ok |-> FALSE, err |-> InvalidSpin, reads |-> {},
          sampled |-> FALSE, y |-> Scal(0), obj |-> NoSpline]
    ELSE LET arr == Extract(d, sp, name, spin, index)
             y == Sample(d, sp, name, spin, index)
             spl == DensitySpline(d.rs, y.val, FALSE)
         IN  IF ~arr.ok
             THEN [ok |-> FALSE, err |-> arr.err,
                   reads |-> ExtractReads(sp, name, spin, index),
                   sampled |-> FALSE, y |-> Scal(0), obj |-> NoSpline]
             ELSE IF ~y.ok
             THEN [ok |-> FALSE, err |-> y.err,
                   reads |-> ExtractReads(sp, name, spin, index) \cup {"rs"},
                   sampled |-> FALSE, y |-> Scal(0), obj |-> NoSpline]
             ELSE [ok |-> spl.ok, err |-> spl.err,
                   reads |-> ExtractReads(sp, name, spin, index) \cup {"rs"},
                   sampled |-> TRUE, y |-> y.val, obj |-> spl.obj]

\* Species.spinpol setter: the value kept, or the error raised (the argument
\* is an integer here, so the Integral check passes).
spinpol_setter(old, spinpol) ==
    IF (IF spinpol < 0 THEN -spinpol ELSE spinpol) # 1
    THEN [ok |-> FALSE, err |-> "ValueError: spinpol must be +1 or -1",
          spinpol |-> old]
    ELSE [ok |-> TRUE, err |-> "", spinpol |-> spinpol]

\* Species(dataset, fields, spinpol=1).
Species(dataset, fields, spinpol) ==
    [dataset |-> dataset, data |-> SpeciesData(fields),
     spinpol |-> spinpol_setter(1, spinpol).spinpol]

\* Species.to_dict: asdict(self._data).
to_dict(s) == s.data

\* Species.elem, inherited from Element (atomdb.periodic): the symbol.
Species_elem(s) == s.data.elem

\* ------------------------------------------------------------------ store
\* An element argument: a symbol, an atomic number, or Ellipsis.
ElemSym(sym) == [tag |-> "str", sym |-> sym, num |-> 0]
ElemNum(n) == [tag |-> "int", sym |-> "", num |-> n]
ElemEllipsis == [tag |-> "Ellipsis", sym |-> "", num |-> 0]

\* atomdb.periodic.element_symbol: the canonical symbol of an element given
\* by symbol or by atomic number.
Symbols == <<"H", "He">>
element_symbol(elem) ==
    IF elem.tag = "str" THEN elem.sym ELSE Symbols[elem.num]

RECURSIVE ZeroPad(_, _)
ZeroPad(str, width) ==
    IF Len(str) >= width THEN str ELSE ZeroPad("0" \o str, width)

\* f"{x:03d}": the decimal digits zero-padded to width 3, the sign counted in
\* the width; formatting None with "03d" raises TypeError.
Format03d(x) ==
    IF x.tag # "int"
    THEN [ok |-> FALSE,
          err |-> "TypeError: unsupported format string passed to NoneType",
          str |-> ""]
    ELSE [ok |-> TRUE, err |-> "",
          str |-> IF x.v < 0 THEN "-" \o ZeroPad(ToString(-x.v), 2)
                  ELSE ZeroPad(ToString(x.v), 3)]

Wild(x) == x.tag = "Ellipsis"

\* datafile(elem, charge, mult, nexc): the file name within
\* <datapath>/<dataset>/db as its four fields <<elem, charge, mult, nexc>>
\* (joined by "_" and followed by ".msg" in the code), "*" for a wildcard.
datafile(elem, charge, mult, nexc) ==
    LET e == IF Wild(elem) THEN "*" ELSE element_symbol(elem)
        c == IF Wild(charge) THEN [ok |-> TRUE, err |-> "", str |-> "*"]
             ELSE Format03d(charge)
        m == IF Wild(mult) THEN [ok |-> TRUE, err |-> "", str |-> "*"]
             ELSE Format03d(mult)
        n == IF Wild(nexc) THEN [ok |-> TRUE, err |-> "", str |-> "*"]
             ELSE Format03d(nexc)
    IN  IF ~c.ok THEN [ok |-> FALSE, err |-> c.err, fn |-> <<>>]
        ELSE IF ~m.ok THEN [ok |-> FALSE, err |-> m.err, fn |-> <<>>]
        ELSE IF ~n.ok THEN [ok |-> FALSE, err |-> n.err, fn |-> <<>>]
        ELSE [ok |-> TRUE, err |-> "", fn |-> <<e, c.str, m.str, n.str>>]

\* glob(fn): the names of the existing files that match the pattern field by
\* field (every name has the four "_"-separated fields of datafile).
glob(files, fn) ==
    {f \in files : \A k \in 1..4 : fn[k] = "*" \/ fn[k] = f[k]}

\* packb(asdict(s._data), default=encode) and unpackb(..., object_hook=decode):
\* the field mapping in a MessagePack container and back.
packb(fields) == [format |-> "msgpack", fields |-> fields]
unpackb(bytes) == bytes.fields

\* f.readall() on the object open(file) or open(file, "rb") returns: neither
\* the text wrapper nor the buffered reader has a readall method.
readall(bytes) ==
    [ok |-> FALSE, err |-> "AttributeError: no attribute readall",
     bytes |-> bytes]

\* The body of load's with-blocks for one existing file.
LoadFile(dataset, bytes) ==
    LET r == readall(bytes)
    IN  IF r.ok
        THEN [ok |-> TRUE, err |-> "",
              obj |-> {Species(dataset, unpackb(r.bytes), 1)}]
        ELSE [ok |-> FALSE, err |-> r.err, obj |-> {}]

\* The store with file fn written: open(fn, "wb") creates or truncates the
\* file, f.write and the close at the end of the with-block put the bytes.
WriteFile(st, fn, bytes) ==
    [f \in DOMAIN st \cup {fn} |-> IF f = fn THEN bytes ELSE st[f]]

\* dump(*species): the loop over the records, stopped by the first error.
RECURSIVE dump(_, _)
dump(st, species) ==
    IF species = <<>> THEN [ok |-> TRUE, err |-> "", store |-> st]
    ELSE LET s == Head(species)
             fn == datafile(ElemSym(Species_elem(s)),
                            PyInt(Species_charge(s.data)),
                            Species_mult(s.data),
                            PyInt(s.data.nexc))
         IN  IF ~fn.ok THEN [ok |-> FALSE, err |-> fn.err, store |-> st]
             ELSE dump(WriteFile(st, fn.fn, packb(to_dict(s))), Tail(species))

\* Ellipsis in (elem, charge, mult, nexc).
HasEllipsis(elem, charge, mult, nexc) ==
    elem.tag = "Ellipsis" \/ Wild(charge) \/ Wild(mult) \/ Wild(nexc)

\* load(elem, charge, mult, nexc, dataset): the outcome and the records
\* returned (a collection when a field is Ellipsis, else one record).
load(st, elem, charge, mult, nexc, dataset) ==
    LET fn == datafile(elem, charge, mult, nexc)
        many == HasEllipsis(elem, charge, mult, nexc)
        read == [f \in glob(DOMAIN st, fn.fn) |-> LoadFile(dataset, st[f])]
        failed == {f \in DOMAIN read : ~read[f].ok}
    IN  IF ~fn.ok
        THEN [ok |-> FALSE, err |-> fn.err, many |-> many, objs |-> {}]
        ELSE IF many
        THEN IF failed # {}
             THEN [ok |-> FALSE, err |-> read[CHOOSE f \in failed : TRUE].err,
                   many |-> TRUE, objs |-> {}]
             ELSE [ok |-> TRUE, err |-> "", many |-> TRUE,
                   objs |-> UNION {read[f].obj : f \in DOMAIN read}]
        ELSE IF fn.fn \notin DOMAIN st
        THEN [ok |-> FALSE, err |-> "FileNotFoundError", many |-> FALSE,
              objs |-> {}]
        ELSE LET r == LoadFile(dataset, st[fn.fn])
             IN  [ok |-> r.ok, err |-> r.err, many |-> FALSE, objs |-> r.obj]

\* ================================================================ SpecSpline
\* The spline accessors and DensitySpline on one record.

\* The radial grid: GridLen ascending points.
Grid == Vec([j \in 1..GridLen |-> j])
\* The rows the stored arrays are made of (values over the grid).
RowSet == {[j \in 1..GridLen |-> j], [j \in 1..GridLen |-> GridLen + 1 - j]}
\* Stored orbital arrays: 1-D over the grid, or 1..MaxRows rows over the grid.
OrbArrays ==
    {Vec(r) : r \in RowSet}
    \cup UNION {{Mat(rows, GridLen) : rows \in [1..n -> RowSet]} : n \in 1..MaxRows}
\* Stored total arrays: 1-D over the grid, or one row over the grid.
TotRow == [j \in 1..GridLen |-> 2 * j + 1]
TotArrays == {Vec(TotRow), Mat(<<TotRow>>, GridLen)}

Quantities == {"dens", "dd_dens", "ked"}
Spins == {"t", "a", "b", "m", "x"}
Indices ==
    {IdxNone} \cup {IdxInt(i) : i \in 0..(MaxRows - 1)}
    \cup {IdxSeq(<<0>>), IdxSeq(<<0, 1>>)}
Derivs == -1..3

\* The identity fields of the record queried.
Hydrogen ==
    [elem |-> "H", atnum |-> 1, basis |-> "aug-ccpwCVQZ", nelec |-> 1,
     nspin |-> 1, nexc |-> 0]

\* A record with quantity q populated by (a, b, tot) and the grid set.
Populated(q, a, b, tot) ==
    LET given == [k \in {"rs", "mo_" \o q \o "_a", "mo_" \o q \o "_b", q \o "_tot"} |->
                    IF k = "rs" THEN Grid
                    ELSE IF k = "mo_" \o q \o "_a" THEN a
                    ELSE IF k = "mo_" \o q \o "_b" THEN b
                    ELSE tot]
    IN  SpeciesData([k \in DOMAIN Hydrogen \cup DOMAIN given |->
                        IF k \in DOMAIN given THEN given[k] ELSE Hydrogen[k]])

NoRet ==
    [op |-> "none", name |-> "", spin |-> "", index |-> IdxNone,
     ok |-> TRUE, err |-> "", reads |-> {}, sampled |-> FALSE,
     y |-> Scal(0), obj |-> NoSpline]
NoEv == [op |-> "none", ok |-> TRUE, err |-> "", deriv |-> 0, nobj |-> 0,
         form |-> ""]

NoLast ==
    [op |-> "none", args |-> <<>>, species |-> <<>>, ok |-> TRUE, err |-> "",
     many |-> FALSE, objs |-> {}, value |-> PyNone]

StoreIdle ==
    /\ store = <<>>
    /\ latest = <<>>
    /\ polarity = <<>>
    /\ ndumps = 0
    /\ wasEmpty = TRUE
    /\ last = NoLast
RaceIdle ==
    /\ wpc = "idle"
    /\ rpc = "idle"
    /\ wrec = <<>>
    /\ rfile = <<>>
    /\ rres = <<>>

InitSpline ==
    /\ \E q \in Quantities, a \in OrbArrays, b \in OrbArrays, tot \in TotArrays :
            self = Species("hci", Populated(q, a, b, tot), 1)
    /\ ret = NoRet
    /\ ev = NoEv
    /\ StoreIdle
    /\ RaceIdle

\* The client holds no result of an earlier call.
Free == ret.op \in {"none", "spinpol"}

\* s.<name>_func(spin, index).
CallSpline(name, spin, index) ==
    LET r == wrapper(self.data, self.spinpol, name, spin, index)
    IN  /\ Free
        /\ ret' = [op |-> "call", name |-> name, spin |-> spin,
                   index |-> index, ok |-> r.ok, err |-> r.err,
                   reads |-> r.reads, sampled |-> r.sampled, y |-> r.y,
                   obj |-> r.obj]
        /\ ev' = NoEv
        /\ UNCHANGED <<self, storeVars, raceVars>>

\* DensitySpline(rs, y, log) built by a consumer from a row over the grid.
NewSpline(row, log) ==
    LET r == DensitySpline(self.data.rs, Vec(row), log)
    IN  /\ Free
        /\ ret' = [NoRet EXCEPT !.op = "new", !.ok = r.ok, !.err = r.err,
                                !.sampled = TRUE, !.y = Vec(row),
                                !.obj = r.obj]
        /\ ev' = NoEv
        /\ UNCHANGED <<self, storeVars, raceVars>>

\* spl(x, deriv) on the spline the last call or construction returned.
Evaluate(deriv) ==
    /\ ret.obj.fitted
    /\ LET r == DensitySpline_call(ret.obj, deriv)
       IN  ev' = [op |-> "eval", ok |-> r.ok, err |-> r.err,
                  deriv |-> r.deriv, nobj |-> r.nobj, form |-> r.form]
    /\ UNCHANGED <<self, ret, storeVars, raceVars>>

\* s.spinpol = v.
SetSpinpol(v) ==
    LET r == spinpol_setter(self.spinpol, v)
    IN  /\ Free
        /\ self' = [self EXCEPT !.spinpol = r.spinpol]
        /\ ret' = [NoRet EXCEPT !.op = "spinpol", !.ok = r.ok, !.err = r.err]
        /\ ev' = NoEv
        /\ UNCHANGED <<storeVars, raceVars>>

\* The client drops the result it holds.
Release ==
    /\ ~Free
    /\ ret' = NoRet
    /\ ev' = NoEv
    /\ UNCHANGED <<self, storeVars, raceVars>>

NextSpline ==
    \/ \E name \in Quantities, spin \in Spins, index \in Indices :
            CallSpline(name, spin, index)
    \/ \E row \in RowSet, log \in BOOLEAN : NewSpline(row, log)
    \/ \E deriv \in Derivs : Evaluate(deriv)
    \/ \E v \in {-1, 0, 1} : SetSpinpol(v)
    \/ Release

SpecSpline == InitSpline /\ [][NextSpline]_vars

\* ------------------------------------------------------ claims on SpecSpline
\* The arrays of quantity name hold one value per grid point on their last axis.
IsPopulated(name) ==
    /\ self.data["mo_" \o name \o "_a"].nc = self.data.rs.nc
    /\ self.data["mo_" \o name \o "_b"].nc = self.data.rs.nc
    /\ self.data[name \o "_tot"].nc = self.data.rs.nc

\* What the accessor of the last call gives for another selector and spinpol.
Other(sp, spin) == wrapper(self.data, sp, ret.name, spin, ret.index)

SameSample(r1, r2) ==
    /\ r1.ok = r2.ok
    /\ r1.err = r2.err
    /\ r1.sampled = r2.sampled
    /\ r1.y = r2.y

\* C5: for a record with populated alpha and beta arrays, whenever the
\* spin="a" and spin="b" calls of an accessor succeed, the spin="m" call with
\* the same index succeeds and its sample array is the "a" sample minus the
\* "b" sample at every grid point.
C5_SpinSymmetry ==
    (ret.op = "call" /\ ret.spin = "m" /\ IsPopulated(ret.name)) =>
        LET a == Other(self.spinpol, "a")
            b == Other(self.spinpol, "b")
        IN  (a.ok /\ b.ok) =>
                /\ ret.ok
                /\ ret.y = np_sub(a.y, b.y).val

\* C6: a spin selector outside {t, a, b, m} is rejected with the
\* invalid-argument error before any field is read or any spline built, and
\* a derivative order outside {0, 1, 2} before the fitted spline is
\* evaluated; neither changes the record, its spinpol or the fitted state;
\* every selector of the set and every order in {0, 1, 2} passes the check.
C6_StateInv ==
    /\ ret.op = "call" =>
          IF ret.spin \in {"t", "a", "b", "m"}
          THEN ret.err # InvalidSpin
          ELSE /\ ~ret.ok
               /\ ret.err = InvalidSpin
               /\ ret.reads = {}
               /\ ~ret.sampled
               /\ ret.obj = NoSpline
    /\ ev.op = "eval" =>
          IF ev.deriv \in {0, 1, 2}
          THEN ev.ok
          ELSE /\ ~ev.ok
               /\ ev.err = InvalidDeriv
               /\ ev.nobj = 0
               /\ ev.form = ""
C6_Step ==
    /\ (ret.op # "call" /\ ret'.op = "call" /\ ret'.err = InvalidSpin)
          => self' = self
    /\ (ev' # ev /\ ev'.op = "eval" /\ ev'.err = InvalidDeriv)
          => (self' = self /\ ret' = ret)
C6_InvalidInputRejected == []C6_StateInv /\ [][C6_Step]_vars

C6_Witness ==
    /\ ret.op = "call"
    /\ ret.spin = "x"
    /\ IsPopulated(ret.name)
    /\ ret.err = InvalidSpin

\* C7: the sample array an accessor hands to DensitySpline for a populated
\* quantity is 1-D with one value per grid point; for spin="t" without index
\* and a stored 1-D total array it is the stored total array itself.
C7_SampleOverGrid ==
    (ret.op = "call" /\ ret.sampled /\ IsPopulated(ret.name)) =>
        /\ ret.y.nd = 1
        /\ ret.y.nc = self.data.rs.nc
        /\ (ret.spin = "t" /\ ret.index = IdxNone
                /\ self.data[ret.name \o "_tot"].nd = 1)
              => ret.y = self.data[ret.name \o "_tot"]

\* The negation of a sample array.
Negated(y) == [y EXCEPT !.v = [i \in DOMAIN y.v |->
                                [j \in DOMAIN y.v[i] |-> -y.v[i][j]]]]

\* C10: with spinpol negated and the same index, "a" gives what "b" gave and
\* "b" what "a" gave, "m" gives the negated sample array (and fails the same
\* way when it fails), and "t" gives the same.
C10_ChannelResolution ==
    (ret.op = "call" /\ ret.spin \in {"t", "a", "b", "m"}) =>
        CASE ret.spin = "a" -> SameSample(ret, Other(-self.spinpol, "b"))
          [] ret.spin = "b" -> SameSample(ret, Other(-self.spinpol, "a"))
          [] ret.spin = "t" -> SameSample(ret, Other(-self.spinpol, "t"))
          [] OTHER ->
                LET o == Other(-self.spinpol, "m")
                IN  /\ ret.ok = o.ok
                    /\ ret.err = o.err
                    /\ ret.sampled = o.sampled
                    /\ ret.y = Negated(o.y)

C10_Witness ==
    /\ ret.op = "call"
    /\ self.spinpol = -1
    /\ ret.spin = "m"
    /\ ret.ok
    /\ \E j \in 1..ret.y.nc : ret.y.v[1][j] # 0

\* ================================================================= SpecStore
\* dump, load and the derived properties on a database directory.

\* <<elem, atnum, nelec, nspin>> of the records in play.
Combos == {<<"H", 1, 1, 1>>, <<"H", 1, 1, -1>>, <<"H", 1, 2, 0>>,
           <<"He", 2, 2, 0>>}
Fields(c, nexc) ==
    [elem |-> c[1], atnum |-> c[2], basis |-> "aug-ccpwCVQZ", nelec |-> c[3],
     nspin |-> c[4], nexc |-> nexc]
Records == {SpeciesData(Fields(c, n)) : c \in Combos, n \in 0..MaxNexc}
AllSpecies == {Species("hci", d, sp) : d \in Records, sp \in {1, -1}}

Abs(n) == IF n < 0 THEN -n ELSE n

\* The identity key of a record: element, charge, multiplicity |nspin| + 1 and
\* excitation index.
IdentityKey(d) == <<d.elem, d.atnum - d.nelec, Abs(d.nspin) + 1, d.nexc>>
\* The file datafile derives from an identity key.
KeyFile(k) == datafile(ElemSym(k[1]), PyInt(k[2]), PyInt(k[3]), PyInt(k[4])).fn

\* The directories the program may find: at most MaxFiles files, each named
\* by the identity key of the record it holds.
InitStores ==
    UNION {{st \in [F -> {packb(d) : d \in Records}] :
                \A f \in F : KeyFile(IdentityKey(unpackb(st[f]))) = f} :
            F \in {G \in SUBSET {KeyFile(IdentityKey(d)) : d \in Records} :
                     Cardinality(G) <= MaxFiles}}

\* The argument lists of dump: one record, or two that differ in nexc only.
DumpArgs ==
    {<<s>> : s \in AllSpecies}
    \cup {p \in {<<s1, s2>> : s1 \in AllSpecies, s2 \in AllSpecies} :
            /\ p[1].spinpol = 1 /\ p[2].spinpol = 1
            /\ p[1].data.nexc = 0 /\ p[2].data.nexc = 1
            /\ [p[2].data EXCEPT !.nexc = 0] = p[1].data}

\* The argument lists of load: the properties of a record, the multiplicity
\* given as the caller computes it or as Species.mult gives it, and Ellipsis
\* for nexc or for every field.
LoadArgsOf(d) ==
    UNION {{<<e, PyInt(Species_charge(d)), m, PyInt(d.nexc)>>,
            <<e, PyInt(Species_charge(d)), m, PyEllipsis>>,
            <<ElemEllipsis, PyEllipsis, PyEllipsis, PyEllipsis>>} :
              e \in {ElemSym(d.elem), ElemNum(d.atnum)},
              m \in {PyInt(Abs(d.nspin) + 1), Species_mult(d)}}
LoadArgs == UNION {LoadArgsOf(d) : d \in Records}

InitStore ==
    /\ store \in InitStores
    /\ wasEmpty = (store = <<>>)
    /\ latest = <<>>
    /\ polarity = <<>>
    /\ ndumps = 0
    /\ last = NoLast
    /\ self = "none"
    /\ ret = NoRet
    /\ ev = NoEv
    /\ RaceIdle

Idle == last.op = "none"

RECURSIVE Recorded(_, _)
\* The history of the records passed to dump, by identity key.
Recorded(hist, species) ==
    IF species = <<>> THEN hist
    ELSE LET d == to_dict(Head(species))
             k == IdentityKey(d)
         IN  Recorded([x \in DOMAIN hist \cup {k} |->
                          IF x = k THEN d ELSE hist[x]], Tail(species))

RECURSIVE RecordedPol(_, _)
\* The history of the spinpol of the records passed to dump, by identity key.
RecordedPol(hist, species) ==
    IF species = <<>> THEN hist
    ELSE LET k == IdentityKey(to_dict(Head(species)))
         IN  RecordedPol([x \in DOMAIN hist \cup {k} |->
                             IF x = k THEN Head(species).spinpol ELSE hist[x]],
                         Tail(species))

\* dump(*species, datapath).
Dump(species) ==
    LET r == dump(store, species)
    IN  /\ Idle
        /\ ndumps + Len(species) <= MaxDumped
        /\ store' = r.store
        /\ latest' = Recorded(latest, species)
        /\ polarity' = RecordedPol(polarity, species)
        /\ ndumps' = ndumps + Len(species)
        /\ last' = [NoLast EXCEPT !.op = "dump", !.species = species,
                                  !.ok = r.ok, !.err = r.err]
        /\ UNCHANGED <<wasEmpty, splineVars, raceVars>>

\* load(elem, charge, mult, nexc, dataset, datapath).
Load(args) ==
    LET r == load(store, args[1], args[2], args[3], args[4], "hci")
    IN  /\ Idle
        /\ last' = [NoLast EXCEPT !.op = "load", !.args = args, !.ok = r.ok,
                                  !.err = r.err, !.many = r.many,
                                  !.objs = r.objs]
        /\ UNCHANGED <<store, latest, polarity, ndumps, wasEmpty, splineVars, raceVars>>

\* s.mult.
ReadMult(s) ==
    /\ Idle
    /\ last' = [NoLast EXCEPT !.op = "mult", !.species = <<s>>,
                              !.value = Species_mult(s.data)]
    /\ UNCHANGED <<store, latest, polarity, ndumps, wasEmpty, splineVars, raceVars>>

\* The caller takes the result (or the error) of the last operation.
Return ==
    /\ ~Idle
    /\ last' = NoLast
    /\ UNCHANGED <<store, latest, polarity, ndumps, wasEmpty, splineVars, raceVars>>

NextStore ==
    \/ \E species \in DumpArgs : Dump(species)
    \/ \E args \in LoadArgs : Load(args)
    \/ \E s \in AllSpecies : ReadMult(s)
    \/ Return

SpecStore == InitStore /\ [][NextStore]_vars

\* ------------------------------------------------------- claims on SpecStore
\* The arguments load gets for a dumped record d: its element, charge,
\* multiplicity (as Species.mult gives it, or |nspin| + 1) and nexc.
KeyArgs(d) ==
    {<<ElemSym(d.elem), PyInt(Species_charge(d)), m, PyInt(d.nexc)>> :
        m \in {Species_mult(d), PyInt(Abs(d.nspin) + 1)}}

\* C1: dump(s) completes without error, and load with the element, charge,
\* multiplicity and nexc of the record last dumped under a key completes
\* without error and returns one Species whose field mapping equals that
\* record's.
C1_RoundTrip ==
    /\ last.op = "dump" => last.ok
    /\ \A k \in DOMAIN latest :
          (last.op = "load" /\ last.args \in KeyArgs(latest[k])) =>
              /\ last.ok
              /\ ~last.many
              /\ {to_dict(o) : o \in last.objs} = {latest[k]}

\* C2: from an empty store, after N records of one element, charge and
\* multiplicity and pairwise different nexc were dumped, load with nexc =
\* Ellipsis returns exactly N records, one per dumped nexc.
C2_WildcardComplete ==
    \A k \in DOMAIN latest :
        ( /\ wasEmpty
          /\ last.op = "load"
          /\ last.args = <<ElemSym(k[1]), PyInt(k[2]), PyInt(k[3]), PyEllipsis>>
          /\ \A x \in DOMAIN latest : <<x[1], x[2], x[3]>> = <<k[1], k[2], k[3]>>
          /\ ndumps = Cardinality(DOMAIN latest) )
        => /\ last.ok
           /\ last.many
           /\ Cardinality(last.objs) = ndumps
           /\ {o.data.nexc : o \in last.objs} = {x[4] : x \in DOMAIN latest}

\* The file an exact argument list of load names.
ExactFile(args) == datafile(args[1], args[2], args[3], args[4])

\* C3: for an exact key, load returns exactly one Species when the file
\* derived from the key exists and fails with the not-found error, returning
\* no record, when it does not.
C3_ExactLoad ==
    ( /\ last.op = "load"
      /\ ~HasEllipsis(last.args[1], last.args[2], last.args[3], last.args[4])
      /\ ExactFile(last.args).ok )
    => IF ExactFile(last.args).fn \in DOMAIN store
       THEN last.ok /\ Cardinality(last.objs) = 1
       ELSE ~last.ok /\ last.err = "FileNotFoundError" /\ last.objs = {}

\* C4: reading mult gives the integer |nspin| + 1, never no value, for
\* positive, zero and negative nspin.
C4_MultDerived ==
    last.op = "mult" =>
        last.value = PyInt(Abs(last.species[1].data.nspin) + 1)

\* C9: after any sequence of dumps, the store holds under every dumped
\* identity key the file with the field mapping of the record last dumped
\* with that key.
C9_LastStoreWins ==
    \A k \in DOMAIN latest :
        /\ KeyFile(k) \in DOMAIN store
        /\ unpackb(store[KeyFile(k)]) = latest[k]

\* The argument lists by which load reaches the record d: its exact key, its
\* key with nexc = Ellipsis, and Ellipsis for every field.
ReachArgs(d) ==
    KeyArgs(d)
    \cup {<<ElemSym(d.elem), PyInt(Species_charge(d)), m, PyEllipsis>> :
            m \in {Species_mult(d), PyInt(Abs(d.nspin) + 1)}}
    \cup {<<ElemEllipsis, PyEllipsis, PyEllipsis, PyEllipsis>>}

\* C11: after a Species of spinpol +1 or -1 was passed to dump, load by its
\* exact key or by a wildcard that covers it completes without error and
\* returns a Species of that identity key, and the Species it returns with
\* that key has the spinpol of the Species last dumped under it, so that
\* its "a" and "b" accessors resolve to the same stored arrays.
C11_SpinpolSurvives ==
    \A k \in DOMAIN polarity :
        (last.op = "load" /\ last.args \in ReachArgs(latest[k])) =>
            /\ last.ok
            /\ \E o \in last.objs : IdentityKey(to_dict(o)) = k
            /\ \A o \in last.objs :
                  IdentityKey(to_dict(o)) = k =>
                      /\ o.spinpol = polarity[k]
                      /\ \A q \in Quantities :
                            /\ NameA(q, o.spinpol) = NameA(q, polarity[k])
                            /\ NameB(q, o.spinpol) = NameB(q, polarity[k])

\* ================================================================== SpecRace
\* One process in dump(s), another in load with an exact key, step by step.

\* A file that open(fn, "wb") has created or truncated and nothing was
\* written to yet.
EmptyFile == [format |-> "empty", fields |-> <<>>]

ExactArgsOf(d) ==
    {<<ElemSym(d.elem), PyInt(Species_charge(d)), m, PyInt(d.nexc)>> :
        m \in {PyInt(Abs(d.nspin) + 1), Species_mult(d)}}
ExactArgs == UNION {ExactArgsOf(d) : d \in Records}

InitRace ==
    /\ store \in InitStores
    /\ wpc = "datafile"
    /\ rpc = "datafile"
    /\ \E s \in AllSpecies : wrec = [s |-> s, fn |-> <<>>, store0 |-> store]
    /\ \E args \in ExactArgs : rfile = [args |-> args, fn |-> <<>>]
    /\ rres = [ok |-> FALSE, err |-> "", bytes |-> EmptyFile, objs |-> {}]
    /\ wasEmpty = (store = <<>>)
    /\ latest = <<>>
    /\ polarity = <<>>
    /\ ndumps = 0
    /\ last = NoLast
    /\ self = "none"
    /\ ret = NoRet
    /\ ev = NoEv

\* The next step of dump(s): the file name, open(fn, "wb"), f.write into the
\* buffer, and the close that ends the with-block.
WriterStep ==
    /\ wpc \in {"datafile", "open", "write", "close"}
    /\ IF wpc = "datafile"
       THEN LET fn == datafile(ElemSym(Species_elem(wrec.s)),
                               PyInt(Species_charge(wrec.s.data)),
                               Species_mult(wrec.s.data),
                               PyInt(wrec.s.data.nexc))
            IN  /\ wpc' = IF fn.ok THEN "open" ELSE "raised"
                /\ wrec' = [wrec EXCEPT !.fn = fn.fn]
                /\ store' = store
       ELSE IF wpc = "open"
       THEN /\ store' = WriteFile(store, wrec.fn, EmptyFile)
            /\ wpc' = "write"
            /\ wrec' = wrec
       ELSE IF wpc = "write"
       THEN /\ wpc' = "close"
            /\ UNCHANGED <<store, wrec>>
       ELSE /\ store' = WriteFile(store, wrec.fn, packb(to_dict(wrec.s)))
            /\ wpc' = "done"
            /\ wrec' = wrec
    /\ UNCHANGED <<rpc, rfile, rres, latest, polarity, ndumps, wasEmpty, last, splineVars>>

\* load: fn = datafile(elem, charge, mult, nexc).
ReaderDatafile ==
    /\ rpc = "datafile"
    /\ LET fn == datafile(rfile.args[1], rfile.args[2], rfile.args[3],
                          rfile.args[4])
       IN  /\ rpc' = IF fn.ok THEN "open" ELSE "raised"
           /\ rfile' = [rfile EXCEPT !.fn = fn.fn]
           /\ rres' = [rres EXCEPT !.err = fn.err]
    /\ UNCHANGED <<store, wpc, wrec, latest, polarity, ndumps, wasEmpty, last,
                   splineVars>>

\* load: open(fn).
ReaderOpen ==
    /\ rpc = "open"
    /\ IF rfile.fn \in DOMAIN store
       THEN rpc' = "read" /\ rres' = rres
       ELSE rpc' = "raised" /\ rres' = [rres EXCEPT !.err = "FileNotFoundError"]
    /\ UNCHANGED <<store, wpc, wrec, rfile, latest, polarity, ndumps, wasEmpty, last,
                   splineVars>>

\* load: Species(dataset, unpackb(f.readall(), object_hook=decode)).
ReaderRead ==
    /\ rpc = "read"
    /\ rfile.fn \in DOMAIN store
    /\ LET r == LoadFile("hci", store[rfile.fn])
       IN  /\ rpc' = IF r.ok THEN "done" ELSE "raised"
           /\ rres' = [ok |-> r.ok, err |-> r.err,
                       bytes |-> IF r.ok THEN store[rfile.fn] ELSE EmptyFile,
                       objs |-> r.obj]
    /\ UNCHANGED <<store, wpc, wrec, rfile, latest, polarity, ndumps, wasEmpty, last,
                   splineVars>>

NextRace ==
    \/ WriterStep
    \/ ReaderDatafile
    \/ ReaderOpen
    \/ ReaderRead

SpecRace == InitRace /\ [][NextRace]_vars

\* -------------------------------------------------------- claims on SpecRace
\* C8: when dump(s) has begun on a key that has a file while load runs on the
\* same key, the load that has ended obtained the complete old content of
\* the file or the complete new content.
C8_NoTornRead ==
    LET k == IdentityKey(wrec.s.data)
    IN  ( /\ rpc \in {"done", "raised"}
          /\ wpc # "datafile"
          /\ rfile.args = <<ElemSym(k[1]), PyInt(k[2]), PyInt(k[3]), PyInt(k[4])>>
          /\ KeyFile(k) \in DOMAIN wrec.store0 )
        => /\ rres.ok
           /\ rres.bytes \in {wrec.store0[KeyFile(k)], packb(to_dict(wrec.s))}

====
